---- MODULE Spec2Model ----
(***************************************************************************)
(* One run of src/outbound_dashboard.py on one uploaded file: ingestion    *)
(* (load_data for .csv, the inline branch for spreadsheets), the filters,  *)
(* the KPI table, the daily / cumulative series with the optional          *)
(* month-day alignment, the contact distribution and the series pivot,     *)
(* with the try/except of lines 45-236 around all of it.                   *)
(*                                                                         *)
(* Encodings.  A nullable cell is a sequence of length 0 (NaN) or 1.  The  *)
(* text of a date cell is the tuple <<year, month, day, hour>> written in  *)
(* it, or <<>> when the cell holds no date at all ("TBC", blank); a        *)
(* Timestamp is such a tuple naming a real calendar instant and NaT is     *)
(* <<>>.  A string produced by astype(str) is its sequence of decimal      *)
(* digits, so that sorting it is lexicographic as in Python.  A float that *)
(* comes out of a division is [k, num, den] with k "num", "nan" or "inf".  *)
(***************************************************************************)
EXTENDS Integers, Sequences, FiniteSets, TLC

VARIABLES
    pc,           \* position of the run in the script
    name,         \* uploaded_file.name
    columns,      \* the columns of the uploaded table
    raw,          \* the rows of the uploaded table
    df,           \* the normalized frame [cols, rows]
    filtered_df,  \* the frame after the two filters
    kpi_df,       \* rows of the KPI table
    daily_sales,  \* the daily series frame [cols, rows]
    align_dates,  \* the checkbox of line 131
    x_axis_col,   \* the x column handed to px.line
    shown,        \* the result tables handed to the page so far
    warned,       \* st.warning of line 76 was called
    error         \* "" or the exception reported by st.error (line 236)

vars == <<pc, name, columns, raw, df, filtered_df, kpi_df, daily_sales,
          align_dates, x_axis_col, shown, warned, error>>

\* ------------------------------------------------------------ bounds
MaxRows == 2

\* ------------------------------------------------------------ values
NaN == <<>>
NaT == <<>>
\* a reference year that is not a leap year
RefYearNotLeap == 2020 + 1
\* the dummy year of line 137
RefYear == 2020

RequiredColumns ==
    {"customer_no", "campaign_year", "campaign_series", "plan_close_dt",
     "order_dt", "previous_step_at_closure", "days_to_plan_close"}

AllTables == {"kpi", "daily", "cumulative", "contacts", "series"}

NoFrame == [cols |-> {}, rows |-> <<>>]

SeqUpTo(S, n) == UNION {[1..k -> S] : k \in 0..n}

RECURSIVE LexLess(_, _)
LexLess(a, b) ==
    IF a = <<>> THEN b # <<>>
    ELSE IF b = <<>> THEN FALSE
    ELSE IF Head(a) # Head(b) THEN Head(a) < Head(b)
    ELSE LexLess(Tail(a), Tail(b))

\* ------------------------------------------------------------ pandas pieces
IsLeap(y) == (y % 4 = 0 /\ y % 100 # 0) \/ y % 400 = 0

DaysInMonth(y, m) ==
    IF m = 2 THEN (IF IsLeap(y) THEN 29 ELSE 28)
    ELSE IF m \in {4, 6, 9, 11} THEN 30 ELSE 31

IsCalendar(y, m, d, h) ==
    /\ y \in 1..9999
    /\ m \in 1..12
    /\ d \in 1..DaysInMonth(y, m)
    /\ h \in 0..23

\* pd.to_datetime(cell, errors='coerce') on one cell
to_datetime(cell) ==
    IF Len(cell) = 4 /\ IsCalendar(cell[1], cell[2], cell[3], cell[4])
    THEN cell
    ELSE NaT

\* pd.read_csv(file) without parse_dates: a column of date text is never
\* given a datetime dtype
read_csv_dtype(cells) ==
    IF cells # <<>> /\ \A i \in DOMAIN cells : cells[i] = <<>>
    THEN "float64"
    ELSE "object"

\* Series.dt exists for datetime-like dtypes only
has_dt_accessor(dtype) == dtype = "datetime64[ns]"

\* Timestamp.date()
DateOf(ts) == <<ts[1], ts[2], ts[3]>>

RECURSIVE Str(_)
\* str(n) for a non-negative integer
Str(n) == IF n < 10 THEN <<n>> ELSE Str(n \div 10) \o <<n % 10>>

contact_map ==
    [l \in {"TKT - To start", "TKT - 1st contact complete",
            "TKT - 2nd contact complete", "TKT - 3rd contact complete",
            "TKT - 4th contact complete", "TKT - 5th contact complete"} |->
        CASE l = "TKT - To start" -> 0
          [] l = "TKT - 1st contact complete" -> 1
          [] l = "TKT - 2nd contact complete" -> 2
          [] l = "TKT - 3rd contact complete" -> 3
          [] l = "TKT - 4th contact complete" -> 4
          [] l = "TKT - 5th contact complete" -> 5]

excel_contact_map ==
    [l \in {"TKT - To start", "TKT - 1st contact complete",
            "TKT - 2nd contact complete", "TKT - 3rd contact complete"} |->
        CASE l = "TKT - To start" -> 0
          [] l = "TKT - 1st contact complete" -> 1
          [] l = "TKT - 2nd contact complete" -> 2
          [] l = "TKT - 3rd contact complete" -> 3]

\* Series.map(dict) on one cell: NaN for a key the dict lacks
map(label, table) == IF label \in DOMAIN table THEN <<table[label]>> ELSE NaN

\* Series.fillna(v) on one cell
fillna(cell, v) == IF cell = NaN THEN v ELSE cell[1]

\* the first of `needed` (in the order the code touches them) that the
\* table lacks, as a sequence of length 0 or 1
RECURSIVE FirstMissing(_, _)
FirstMissing(needed, cols) ==
    IF needed = <<>> THEN <<>>
    ELSE IF Head(needed) \notin cols THEN <<Head(needed)>>
    ELSE FirstMissing(Tail(needed), cols)

\* ------------------------------------------------------------ ingestion
Normalize(r, table) ==
    [customer_no              |-> r.customer_no,
     campaign_year            |-> Str(r.campaign_year),
     campaign_series          |-> r.campaign_series,
     plan_close_dt            |-> to_datetime(r.plan_close_dt),
     order_dt                 |-> to_datetime(r.order_dt),
     previous_step_at_closure |-> r.previous_step_at_closure,
     contact_count            |-> fillna(map(r.previous_step_at_closure, table), 0),
     days_to_plan_close       |-> r.days_to_plan_close]

Loaded(cols, rows) == [exc |-> "", df |-> [cols |-> cols, rows |-> rows]]
Raised(exc) == [exc |-> exc, df |-> NoFrame]

\* load_data(file), lines 14-38
load_data(cols, rows) ==
    IF "plan_close_dt" \notin cols THEN Raised("KeyError")
    ELSE IF ~has_dt_accessor(
                read_csv_dtype([i \in DOMAIN rows |-> rows[i].plan_close_dt]))
         THEN Raised("AttributeError")
    ELSE IF FirstMissing(<<"order_dt", "previous_step_at_closure",
                           "campaign_year">>, cols) # <<>>
         THEN Raised("KeyError")
    ELSE Loaded(cols \cup {"close_date", "contact_count"},
                [i \in DOMAIN rows |-> Normalize(rows[i], contact_map)])

\* the spreadsheet branch, lines 51-57
load_excel(cols, rows) ==
    IF FirstMissing(<<"plan_close_dt", "order_dt", "previous_step_at_closure",
                      "campaign_year">>, cols) # <<>>
    THEN Raised("KeyError")
    ELSE Loaded(cols \cup {"contact_count"},
                [i \in DOMAIN rows |-> Normalize(rows[i], excel_contact_map)])

\* ------------------------------------------------------------ inputs
Labels ==
    DOMAIN contact_map \cup {"TKT - 6th contact complete", ""}

\* rows that differ in what the date-keyed tables read
RowsDaily ==
    [customer_no : {<<101>>, NaN},
     campaign_year : {2025, 2026},
     campaign_series : {"Masters"},
     plan_close_dt : {<<2023, 2, 29, 9>>, <<2024, 2, 29, 9>>,
                      <<2024, 2, 29, 17>>, <<2023, 3, 1, 9>>},
     order_dt : {<<2024, 1, 15, 0>>},
     previous_step_at_closure : {"TKT - To start"},
     days_to_plan_close : {7}]

\* rows that differ in what the KPI table reads
RowsKpi ==
    [customer_no : {<<101>>, NaN},
     campaign_year : {2025, 2026},
     campaign_series : {"Masters"},
     plan_close_dt : {<<2025, 3, 1, 9>>},
     order_dt : {<<2024, 1, 15, 0>>},
     previous_step_at_closure : {"TKT - To start", "TKT - 2nd contact complete",
                                 "TKT - 5th contact complete"},
     days_to_plan_close : {7}]

\* rows that differ in what ingestion reads
RowsIngest ==
    [customer_no : {<<101>>},
     campaign_year : {2025},
     campaign_series : {"Masters"},
     plan_close_dt : {<<>>, <<2025, 3, 1, 9>>},
     order_dt : {<<>>, <<2024, 1, 15, 0>>},
     previous_step_at_closure : Labels,
     days_to_plan_close : {7}]

\* rows of the uploads that lack a column
RowsSchema ==
    [customer_no : {<<101>>},
     campaign_year : {2025, 2026},
     campaign_series : {"Masters", "Pops"},
     plan_close_dt : {<<2025, 3, 1, 9>>},
     order_dt : {<<2024, 1, 15, 0>>},
     previous_step_at_closure : {"TKT - 1st contact complete"},
     days_to_plan_close : {7}]

Uploads ==
    ({RequiredColumns} \X
        (SeqUpTo(RowsDaily, MaxRows) \cup SeqUpTo(RowsKpi, MaxRows)
            \cup SeqUpTo(RowsIngest, MaxRows)))
    \cup
    ({RequiredColumns \ {c} : c \in RequiredColumns} \cup {RequiredColumns})
        \X SeqUpTo(RowsSchema, MaxRows)

Init ==
    /\ pc = "start"
    /\ name \in {"campaign.csv", "campaign.xlsx"}
    /\ \E u \in Uploads : columns = u[1] /\ raw = u[2]
    /\ df = NoFrame
    /\ filtered_df = NoFrame
    /\ kpi_df = <<>>
    /\ daily_sales = NoFrame
    /\ align_dates = FALSE
    /\ x_axis_col = ""
    /\ shown = {}
    /\ warned = FALSE
    /\ error = ""

\* ------------------------------------------------------------ the run
\* except Exception as e: st.error(...), lines 235-236
Fail(exc) ==
    /\ pc' = "failed"
    /\ error' = exc

endswith_csv(n) == n = "campaign.csv"

\* lines 47-57
Load ==
    /\ pc = "start"
    /\ LET r == IF endswith_csv(name) THEN load_data(columns, raw)
                ELSE load_excel(columns, raw)
       IN  IF r.exc # ""
           THEN Fail(r.exc) /\ UNCHANGED df
           ELSE pc' = "loaded" /\ df' = r.df /\ UNCHANGED error
    /\ UNCHANGED <<name, columns, raw, filtered_df, kpi_df, daily_sales,
                   align_dates, x_axis_col, shown, warned>>

\* ------------------------------------------------------------ filters
Values(rows, col) == {rows[i][col] : i \in DOMAIN rows}

\* df[mask] of lines 70-73
ApplyFilters(rows, selected_years, selected_series) ==
    LET Keep(r) == /\ r.campaign_year \in selected_years
                   /\ r.campaign_series \in selected_series
    IN  SelectSeq(rows, Keep)

\* lines 59-76; the two multiselects return any subset of their options
SelectFilters ==
    /\ pc = "loaded"
    /\ IF "campaign_series" \notin df.cols
       THEN Fail("KeyError") /\ UNCHANGED <<filtered_df, warned>>
       ELSE \E selected_years \in SUBSET Values(df.rows, "campaign_year"),
               selected_series \in SUBSET Values(df.rows, "campaign_series") :
              LET rows == ApplyFilters(df.rows, selected_years, selected_series)
              IN  /\ filtered_df' = [cols |-> df.cols, rows |-> rows]
                  /\ IF Len(rows) = 0
                     THEN pc' = "empty" /\ warned' = TRUE
                     ELSE pc' = "filtered" /\ UNCHANGED warned
                  /\ UNCHANGED error
    /\ UNCHANGED <<name, columns, raw, df, kpi_df, daily_sales, align_dates,
                   x_axis_col, shown>>

\* ------------------------------------------------------------ KPI table
RECURSIVE SumCol(_, _)
SumCol(rows, col) ==
    IF rows = <<>> THEN 0 ELSE Head(rows)[col] + SumCol(Tail(rows), col)

\* the group keys of groupby('campaign_year'), smallest string first
sorted_years(S) ==
    [i \in 1..Cardinality(S) |->
        CHOOSE x \in S : Cardinality({y \in S : LexLess(y, x)}) = i - 1]

\* Series.count(): the cells that are not NaN
count(rows, col) == Cardinality({i \in DOMAIN rows : rows[i][col] # NaN})

Float(num, den) == [k |-> "num", num |-> num, den |-> den]
FloatNaN == [k |-> "nan", num |-> 0, den |-> 1]
FloatInf == [k |-> "inf", num |-> 0, den |-> 1]

\* a / b for a nullable count a and a count b, as numpy divides floats
divide(a, b) ==
    IF a = NaN THEN FloatNaN
    ELSE IF b = 0 THEN (IF a[1] = 0 THEN FloatNaN ELSE FloatInf)
    ELSE Float(a[1], b)

times(x, n) == IF x.k = "num" THEN Float(x.num * n, x.den) ELSE x

\* Series.fillna(0) on a float
fillna_float(x) == IF x.k = "nan" THEN Float(0, 1) ELSE x

\* lines 92-93: the zero-touch count of one cohort, NaN for a cohort that
\* has no row with contact_count == 0
zero_touch(rows, year) ==
    LET Zero(r) == r.contact_count = 0 /\ r.campaign_year = year
        zs == SelectSeq(rows, Zero)
    IN  IF zs = <<>> THEN NaN ELSE <<count(zs, "customer_no")>>

\* line 94 without its .fillna(0)
pct_without_fillna(ztc, total) == times(divide(ztc, total), 100)

\* line 94
pct_zero_touch(ztc, total) == fillna_float(times(divide(ztc, total), 100))

\* lines 84-94: one row per campaign_year present, in sorted order
KpiRows(rows) ==
    LET years == sorted_years(Values(rows, "campaign_year"))
    IN  [g \in DOMAIN years |->
           LET In(r) == r.campaign_year = years[g]
               grp == SelectSeq(rows, In)
               total == count(grp, "customer_no")
               ztc == zero_touch(rows, years[g])
           IN  [campaign_year     |-> years[g],
                Total_Sales       |-> total,
                Avg_Contacts      |-> Float(SumCol(grp, "contact_count"), Len(grp)),
                Avg_Days_to_Close |-> Float(SumCol(grp, "days_to_plan_close"), Len(grp)),
                Zero_Touch_Count  |-> ztc,
                Pct_Zero_Touch    |-> pct_zero_touch(ztc, total)]]

\* lines 80-115
KpiTable ==
    /\ pc = "filtered"
    /\ IF FirstMissing(<<"customer_no", "contact_count", "days_to_plan_close">>,
                       filtered_df.cols) # <<>>
       THEN Fail("KeyError") /\ UNCHANGED <<kpi_df, shown>>
       ELSE /\ kpi_df' = KpiRows(filtered_df.rows)
            /\ shown' = shown \cup {"kpi"}
            /\ pc' = "kpi"
            /\ UNCHANGED error
    /\ UNCHANGED <<name, columns, raw, df, filtered_df, daily_sales,
                   align_dates, x_axis_col, warned>>

\* ------------------------------------------------------------ daily series
KeyLess(a, b) == LexLess(a[1], b[1]) \/ (a[1] = b[1] /\ LexLess(a[2], b[2]))

\* the group keys of a two-column groupby, smallest first (the order
\* sort_values of line 125 asks for again)
sorted_keys(S) ==
    [i \in 1..Cardinality(S) |->
        CHOOSE x \in S : Cardinality({y \in S : KeyLess(y, x)}) = i - 1]

\* the keys of the same groupby under dropna=False
group_keys_with_nat(rows) ==
    {<<rows[i].campaign_year, rows[i].plan_close_dt>> : i \in DOMAIN rows}

\* the keys of groupby(['campaign_year', 'plan_close_dt']): dropna=True
\* leaves out the rows whose key holds NaT
group_keys(rows) ==
    {<<rows[i].campaign_year, rows[i].plan_close_dt>> :
        i \in {j \in DOMAIN rows : rows[j].plan_close_dt # NaT}}

\* .size() of one group
group_size(rows, key) ==
    Cardinality({i \in DOMAIN rows :
        <<rows[i].campaign_year, rows[i].plan_close_dt>> = key})

RECURSIVE CumAt(_, _, _)

CumAt(vals, grp, i) ==
    LET prev == {j \in 1..(i - 1) : grp[j] = grp[i]}
    IN  vals[i] + (IF prev = {} THEN 0
                   ELSE CumAt(vals, grp,
                              CHOOSE j \in prev : \A k \in prev : k <= j))

\* line 126 without its groupby: one running sum down the whole table
plain_cumsum(vals, grp) ==
    [i \in DOMAIN vals |-> CumAt(vals, [j \in DOMAIN vals |-> 0], i)]

\* groupby('campaign_year')['daily_sales'].cumsum(), line 126
group_cumsum(vals, grp) == [i \in DOMAIN vals |-> CumAt(vals, grp, i)]

\* Timestamp.replace(year=y): ValueError when the day does not exist in y
replace_ok(ts, y) == ts = NaT \/ IsCalendar(y, ts[2], ts[3], ts[4])
replace_year(ts, y) == IF ts = NaT THEN NaT ELSE <<y, ts[2], ts[3], ts[4]>>

\* lines 121-126
DailyRows(rows) ==
    LET keys == sorted_keys(group_keys(rows))
        size == [i \in DOMAIN keys |-> group_size(rows, keys[i])]
        cum == group_cumsum(size, [i \in DOMAIN keys |-> keys[i][1]])
    IN  [i \in DOMAIN keys |->
           [campaign_year    |-> keys[i][1],
            plan_close_dt    |-> keys[i][2],
            daily_sales      |-> size[i],
            cumulative_sales |-> cum[i],
            plot_date        |-> NaT]]

DailyCols == {"campaign_year", "plan_close_dt", "daily_sales", "cumulative_sales"}

\* lines 120-144
DailyAggregation ==
    /\ pc = "kpi"
    /\ IF "plan_close_dt" \notin filtered_df.cols
       THEN Fail("KeyError") /\ UNCHANGED <<daily_sales, align_dates, x_axis_col>>
       ELSE LET rows == DailyRows(filtered_df.rows)
            IN  \E checked \in BOOLEAN :
                  /\ align_dates' = checked
                  /\ IF ~checked
                     THEN /\ daily_sales' = [cols |-> DailyCols, rows |-> rows]
                          /\ x_axis_col' = "close_date"
                          /\ pc' = "daily"
                          /\ UNCHANGED error
                     ELSE IF \E i \in DOMAIN rows :
                                ~replace_ok(rows[i].plan_close_dt, RefYear)
                     THEN /\ daily_sales' = [cols |-> DailyCols, rows |-> rows]
                          /\ UNCHANGED x_axis_col
                          /\ Fail("ValueError")
                     ELSE /\ daily_sales' =
                               [cols |-> DailyCols \cup {"plot_date"},
                                rows |-> [i \in DOMAIN rows |->
                                   [rows[i] EXCEPT !.plot_date =
                                      replace_year(rows[i].plan_close_dt, RefYear)]]]
                          /\ x_axis_col' = "plot_date"
                          /\ pc' = "daily"
                          /\ UNCHANGED error
    /\ UNCHANGED <<name, columns, raw, df, filtered_df, kpi_df, shown, warned>>

\* px.line(data_frame, x=col, ...): ValueError for a column the frame lacks
px_ok(frame, cols) == cols \subseteq frame.cols

\* a chart step: build the figure from `frame` and hand it to the page
Chart(from, to, frame, used, table) ==
    /\ pc = from
    /\ IF px_ok(frame, used)
       THEN pc' = to /\ shown' = shown \cup {table} /\ UNCHANGED error
       ELSE Fail("ValueError") /\ UNCHANGED shown
    /\ UNCHANGED <<name, columns, raw, df, filtered_df, kpi_df, daily_sales,
                   align_dates, x_axis_col, warned>>

\* lines 148-160
DailyChart ==
    Chart("daily", "fig_daily", daily_sales,
          {x_axis_col, "daily_sales", "campaign_year"}, "daily")

\* lines 162-173
CumulativeChart ==
    Chart("fig_daily", "fig_cum", daily_sales,
          {x_axis_col, "cumulative_sales", "campaign_year"}, "cumulative")

\* lines 179-215: the contact distribution (and the box plot beside it)
ContactsChart ==
    Chart("fig_cum", "charts", filtered_df,
          {"campaign_year", "contact_count", "days_to_plan_close"}, "contacts")

\* lines 217-233
SeriesChart ==
    Chart("charts", "done", filtered_df,
          {"campaign_series", "campaign_year", "contact_count"}, "series")

Next ==
    \/ Load
    \/ SelectFilters
    \/ KpiTable
    \/ DailyAggregation
    \/ DailyChart
    \/ CumulativeChart
    \/ ContactsChart
    \/ SeriesChart

Spec == Init /\ [][Next]_vars

\* ------------------------------------------------------------ claims
Ended == pc \in {"done", "failed", "empty"}
LoadFailed == pc = "failed" /\ df = NoFrame
DailyBuilt == daily_sales.cols # {}
Cohort(rows, year) == {i \in DOMAIN rows : rows[i].campaign_year = year}
Dated(rows) == {i \in DOMAIN rows : rows[i].plan_close_dt # NaT}

RECURSIVE SumDaily(_, _)
SumDaily(rows, I) ==
    IF I = {} THEN 0
    ELSE LET i == CHOOSE x \in I : TRUE
         IN  rows[i].daily_sales + SumDaily(rows, I \ {i})

\* C1: a run that completes or fails ends in exactly one of two ways: every
\* result table was emitted and no failure was reported, or a failure was
\* reported and no result table was emitted; never a table and then a failure.
C1_AllOrNothing ==
    /\ ~(error # "" /\ shown # {})
    /\ pc = "done" => shown = AllTables /\ error = ""
    /\ pc = "failed" => error # "" /\ shown = {}

\* the fields of a normalized record that C2 compares
SameRecords(a, b) ==
    /\ Len(a) = Len(b)
    /\ \A i \in DOMAIN a :
          /\ a[i].contact_count = b[i].contact_count
          /\ a[i].plan_close_dt = b[i].plan_close_dt
          /\ a[i].order_dt = b[i].order_dt
          /\ a[i].campaign_year = b[i].campaign_year

\* C2: the rows a run has ingested by one path (load_data or the spreadsheet
\* branch) have the same outcome on the other path: both succeed or both
\* fail, and on success every record has the same contact_count, parsed
\* plan_close_dt / order_dt and campaign_year.
C2_PathsAgree ==
    LET other == IF endswith_csv(name) THEN load_excel(columns, raw)
                 ELSE load_data(columns, raw)
    IN  /\ LoadFailed => other.exc # ""
        /\ df # NoFrame => other.exc = "" /\ SameRecords(df.rows, other.df.rows)

\* the lifecycle-stage table of the data model: six labels, anything else 0
LifecycleStage(l) ==
    CASE l = "TKT - To start" -> 0
      [] l = "TKT - 1st contact complete" -> 1
      [] l = "TKT - 2nd contact complete" -> 2
      [] l = "TKT - 3rd contact complete" -> 3
      [] l = "TKT - 4th contact complete" -> 4
      [] l = "TKT - 5th contact complete" -> 5
      [] OTHER -> 0

\* C3: whatever the ingestion path, every record's contact_count is the
\* six-entry lifecycle table's value for its previous_step_at_closure, 0 for
\* any other or missing label, and so lies in 0..5.
C3_ContactCount ==
    df # NoFrame =>
        \A i \in DOMAIN df.rows :
            /\ df.rows[i].contact_count =
                   LifecycleStage(raw[i].previous_step_at_closure)
            /\ df.rows[i].contact_count \in 0..5

\* a date text that names no calendar instant
Unparseable(cell) ==
    \/ Len(cell) # 4
    \/ ~IsCalendar(cell[1], cell[2], cell[3], cell[4])

\* C4: for an input with all required columns, ingestion completes on either
\* path whatever dates are unparseable, keeps every record, and stores the
\* unknown-date marker in exactly the unparseable fields.
C4_BadDateNeverAborts ==
    (columns = RequiredColumns /\ pc # "start") =>
        /\ ~LoadFailed
        /\ Len(df.rows) = Len(raw)
        /\ \A i \in DOMAIN df.rows :
              /\ df.rows[i].plan_close_dt = NaT <=> Unparseable(raw[i].plan_close_dt)
              /\ df.rows[i].order_dt = NaT <=> Unparseable(raw[i].order_dt)

KpiRowOf(year) == kpi_df[CHOOSE g \in DOMAIN kpi_df : kpi_df[g].campaign_year = year]

\* what the date-keyed table says of the unknown-date records, for C5
DailyLeavesOutUnknown ==
    LET rows == filtered_df.rows
        series == daily_sales.rows
    IN  /\ \A k \in DOMAIN series : series[k].plan_close_dt # NaT
        /\ \A year \in Values(rows, "campaign_year") :
              SumDaily(series, Cohort(series, year)) =
                  Cardinality(Cohort(rows, year) \cap Dated(rows))

\* the part of a cohort's Total_Sales that its date-valid records do not
\* account for
TotalBeyondDated(year) ==
    LET rows == filtered_df.rows
    IN  KpiRowOf(year).Total_Sales -
            Cardinality({i \in Cohort(rows, year) \cap Dated(rows) :
                            rows[i].customer_no # NaN})

C6_PctZeroTouch ==
    \A g \in DOMAIN kpi_df :
        LET row == kpi_df[g]
            rows == filtered_df.rows
            counted == {i \in Cohort(rows, row.campaign_year) :
                           rows[i].customer_no # NaN}
            zt == Cardinality({i \in counted : rows[i].contact_count = 0})
            pct == row.Pct_Zero_Touch
        IN  /\ row.Total_Sales = Cardinality(counted)
            /\ pct.k = "num" /\ pct.den > 0
            /\ row.Total_Sales > 0 =>
                  pct.num * row.Total_Sales = zt * 100 * pct.den
            /\ row.Total_Sales = 0 => pct.num = 0
            /\ zt = 0 => pct.num = 0
            /\ 0 <= pct.num /\ pct.num <= 100 * pct.den

\* a KPI table with a cohort of total_sales 0 beside a cohort that is all
\* zero-touch
C6_Witness ==
    \E g, h \in DOMAIN kpi_df :
        /\ kpi_df[g].Total_Sales = 0
        /\ kpi_df[g].Pct_Zero_Touch = Float(0, 1)
        /\ kpi_df[h].Total_Sales > 0
        /\ kpi_df[h].Pct_Zero_Touch.num = 100 * kpi_df[h].Pct_Zero_Touch.den

\* C7: the daily series is in ascending date order within each cohort, and a
\* row's cumulative_sales is the sum of daily_sales of it and the earlier rows
\* of its own cohort only; so it never decreases along a cohort and its last
\* value is the cohort's number of date-valid sales.
C7_CumulativeRunningSum ==
    DailyBuilt =>
        LET series == daily_sales.rows
            SameCohort(i, j) == series[i].campaign_year = series[j].campaign_year
            Before(i, j) == LexLess(series[i].plan_close_dt, series[j].plan_close_dt)
        IN  \A i \in DOMAIN series :
              /\ series[i].cumulative_sales =
                    SumDaily(series, {j \in DOMAIN series :
                                         SameCohort(i, j) /\ ~Before(i, j)})
              /\ \A j \in DOMAIN series :
                    /\ (SameCohort(i, j) /\ i < j) => Before(i, j)
                    /\ (SameCohort(i, j) /\ Before(i, j)) =>
                          series[i].cumulative_sales <= series[j].cumulative_sales
              /\ (\A j \in DOMAIN series : SameCohort(i, j) => ~Before(i, j)) =>
                    series[i].cumulative_sales =
                        Cardinality(Cohort(filtered_df.rows, series[i].campaign_year)
                                        \cap Dated(filtered_df.rows))

\* two cohorts in the series, the second one's cumulative sum restarting
C7_Witness ==
    /\ DailyBuilt
    /\ \E i, j \in DOMAIN daily_sales.rows :
          /\ i < j
          /\ daily_sales.rows[i].campaign_year # daily_sales.rows[j].campaign_year
          /\ daily_sales.rows[i].cumulative_sales = 1
          /\ daily_sales.rows[j].cumulative_sales = 1

\* C8: with the alignment toggle on the run does not fail on any resolvable
\* close date, February 29 included; every row of the daily series gets a
\* plot_date with its own month, day and time in one leap year; and a row
\* that precedes another of its cohort in month-day terms has the earlier
\* plot_date.
C8_AlignedProjection ==
    (DailyBuilt /\ align_dates) =>
        LET series == daily_sales.rows
            MonthDay(ts) == <<ts[2], ts[3]>>
        IN  /\ pc # "failed"
            /\ "plot_date" \in daily_sales.cols
            /\ Cardinality({series[i].plot_date[1] : i \in DOMAIN series}) <= 1
            /\ \A i \in DOMAIN series :
                  LET p == series[i].plot_date
                  IN  /\ Len(p) = 4
                      /\ IsLeap(p[1])
                      /\ IsCalendar(p[1], p[2], p[3], p[4])
                      /\ Tail(p) = Tail(series[i].plan_close_dt)
            /\ \A i, j \in DOMAIN series :
                  (/\ series[i].campaign_year = series[j].campaign_year
                   /\ LexLess(MonthDay(series[i].plan_close_dt),
                              MonthDay(series[j].plan_close_dt)))
                  => LexLess(series[i].plot_date, series[j].plot_date)

\* an aligned run that completed, with a February 29 row and a later row of
\* the same cohort that precedes it in month-day terms
C8_Witness ==
    /\ pc = "done"
    /\ align_dates
    /\ \E i, j \in DOMAIN daily_sales.rows :
          /\ i < j
          /\ daily_sales.rows[i].campaign_year = daily_sales.rows[j].campaign_year
          /\ DateOf(daily_sales.rows[j].plan_close_dt) = <<2024, 2, 29>>
          /\ DateOf(daily_sales.rows[i].plan_close_dt) = <<2023, 3, 1>>
          /\ LexLess(daily_sales.rows[j].plot_date, daily_sales.rows[i].plot_date)

\* C9: an input that lacks one of the seven required columns never gets a
\* result table, and its run ends with a failure reported.
C9_MissingColumnFails ==
    columns # RequiredColumns =>
        /\ shown = {}
        /\ Ended => pc = "failed" /\ error # ""

\* C10: the daily series has exactly one row per cohort and calendar date on
\* which a filtered record with a resolvable plan_close_dt closed, and its
\* daily_sales is the number of those records whatever their time of day.
C10_OneRowPerCalendarDate ==
    DailyBuilt =>
        LET rows == filtered_df.rows
            series == daily_sales.rows
            Closed(year, date) ==
                {i \in Cohort(rows, year) \cap Dated(rows) :
                    DateOf(rows[i].plan_close_dt) = date}
        IN  /\ \A i, j \in DOMAIN series :
                  (/\ series[i].campaign_year = series[j].campaign_year
                   /\ DateOf(series[i].plan_close_dt) = DateOf(series[j].plan_close_dt))
                  => i = j
            /\ \A i \in DOMAIN series :
                  series[i].daily_sales =
                      Cardinality(Closed(series[i].campaign_year,
                                         DateOf(series[i].plan_close_dt)))
            /\ \A r \in Dated(rows) :
                  \E i \in DOMAIN series :
                      /\ series[i].campaign_year = rows[r].campaign_year
                      /\ DateOf(series[i].plan_close_dt) = DateOf(rows[r].plan_close_dt)
====
